---- MODULE Spec2Model ----
(***************************************************************************)
(* Amortization engine of finance_logic.py: the Price and SAC schedule     *)
(* generators, the prepayment simulator and the goal solver.               *)
(*                                                                         *)
(* Number representation.  The program computes on IEEE doubles.  Here a   *)
(* money amount is an integer number of millionths of a currency unit and  *)
(* a rate is an integer number of hundredths; every product and quotient   *)
(* is rounded to the nearest representable value, additions and            *)
(* subtractions are exact.  As in the program, a rounding error is far     *)
(* smaller than the one-cent epsilon (EPS) but it is not zero.             *)
(***************************************************************************)
EXTENDS Integers, Sequences, FiniteSets

(* ------------------------------------------------------------------ *)
(* Number formats and literals of the program                          *)
(* ------------------------------------------------------------------ *)

\* 0.01 currency units, the epsilon of the loops (1 cent), in millionths.
EPS == 10000

\* A rate of 1.0 (100 %), in hundredths.
UM == 100

\* Months in a year: taxa_mensal = taxa_anual / 12, and the 'anual' pattern.
MESES_ANO == 12

\* The result of a float division of a positive number by zero in numpy (inf).
Infinito == 2147483647

(* ------------------------------------------------------------------ *)
(* Bounds of the model                                                 *)
(* ------------------------------------------------------------------ *)

\* Longest term (in months) of a loan.
MaxPrazo == 14

\* Latest first month of a prepayment.
MaxInicio == 3

(* ------------------------------------------------------------------ *)
(* Rounded arithmetic                                                  *)
(* ------------------------------------------------------------------ *)

Abs(x) == IF x < 0 THEN -x ELSE x

Sinal(x) == IF x < 0 THEN -1 ELSE 1

\* One step of the long multiplication below: from <<q, r>> with
\* a * h = q * c + r to the pair for a * (2 * h + b0).
MulDivPasso(qr, a, b0, c) ==
    LET t == 2 * qr[2] + b0 * (a % c)
    IN  <<2 * qr[1] + b0 * (a \div c) + (t \div c), t % c>>

\* <<quotient, remainder>> of a * b by c for a, b >= 0 and c > 0, computed
\* bit by bit so that no intermediate value exceeds 3 * c.
RECURSIVE MulDivMod(_, _, _)
MulDivMod(a, b, c) ==
    IF b = 0 THEN <<0, 0>>
    ELSE MulDivPasso(MulDivMod(a, b \div 2, c), a, b % 2, c)

\* a * b / c rounded to the nearest integer (halves away from zero): the
\* model of a float product or quotient.  c # 0.
MulDiv(a, b, c) ==
    LET qr == MulDivMod(Abs(a), Abs(b), Abs(c))
    IN  Sinal(a) * Sinal(b) * Sinal(c)
          * (qr[1] + (IF 2 * qr[2] >= Abs(c) THEN 1 ELSE 0))

RECURSIVE MDC(_, _)
MDC(a, b) == IF b = 0 THEN a ELSE MDC(b, a % b)

RECURSIVE Pot(_, _)
Pot(b, n) == IF n <= 0 THEN 1 ELSE b * Pot(b, n - 1)

\* taxa_anual / 12
TaxaMensal(taxa_anual) == MulDiv(taxa_anual, 1, MESES_ANO)

\* principal / n and the like: a float quotient of two numbers.
Quociente(a, b) == MulDiv(a, 1, b)

\* saldo_devedor * taxa_mensal: a float product of an amount and a rate.
Produto(valor, taxa) == MulDiv(valor, taxa, UM)

(* ------------------------------------------------------------------ *)
(* numpy_financial, as the program calls it (fv = 0, when = 'end')     *)
(* ------------------------------------------------------------------ *)

\* 1 + rate as a fraction <<numerator, denominator>> in lowest terms.
Fator(rate) ==
    LET g == MDC(UM + rate, UM) IN <<(UM + rate) \div g, UM \div g>>

\* temp = (1 + rate) ** nper as an exact fraction; nper may be negative.
Temp(rate, nper) ==
    LET f == Fator(rate)
    IN  IF nper >= 0 THEN <<Pot(f[1], nper), Pot(f[2], nper)>>
        ELSE <<Pot(f[2], -nper), Pot(f[1], -nper)>>

\* npf.pmt(rate, nper, pv) for rate > 0:
\*   temp = (1 + rate) ** nper;  fact = (1 / rate) * (temp - 1)
\*   pmt  = -(pv * temp) / fact
\* numpy divides by fact = 0 (nper = 0) without raising: the result is inf.
PMT(rate, nper, pv) ==
    LET t == Temp(rate, nper)
        g == MDC(rate, UM)
        rn == rate \div g
        rd == UM \div g
    IN  IF t[1] = t[2] THEN Sinal(-pv) * Infinito
        ELSE MulDiv(-pv, t[1] * rn, rd * (t[1] - t[2]))

\* The argument of the logarithm of npf.nper(rate, -parcela, saldo) is
\* parcela / (parcela - rate * saldo); this is its denominator.
NperDen(rate, parcela, saldo) == parcela - Produto(saldo, rate)

\* npf.nper yields nan or inf when that argument is not a positive finite
\* number, and int() of it raises.
NperIndefinido(rate, parcela, saldo) == NperDen(rate, parcela, saldo) <= 0

\* The largest k with d * (bn / bd) ^ k <= n, for n >= d > 0 and bn > bd.
RECURSIVE PisoLog(_, _, _, _)
PisoLog(n, d, bn, bd) ==
    IF d > (n * bd) \div bn THEN 0
    ELSE 1 + PisoLog(n * bd, d * bn, bn, bd)

\* (1 + rate) ** 0.01 as a fraction, for the rate of the model (1 + rate = 2):
\* 2 ** 0.01 = 1.0069555500...
RaizCentesima(rate) == <<10069556, 10000000>>

\* int(npf.nper(rate, -parcela, saldo) + 0.99) where it is defined.
\* With x = log(parcela / den) / log(1 + rate) and k = floor(x), the result
\* is k when x - k < 0.01 and k + 1 otherwise.
IntNperMais99(rate, parcela, saldo) ==
    LET f == Fator(rate)
        d == NperDen(rate, parcela, saldo)
        k == PisoLog(parcela, d, f[1], f[2])
        nk == parcela * Pot(f[2], k)
        dk == d * Pot(f[1], k)
        r == RaizCentesima(rate)
        qr == MulDivMod(dk, r[1], r[2])
    IN  IF nk < qr[1] \/ (nk = qr[1] /\ qr[2] > 0) THEN k ELSE k + 1

\* int(n / d + 0.99) for n >= 0 and d > 0: the quotient is rounded up
\* unless its fractional part is below 0.01.
IntRazaoMais99(n, d) ==
    (n \div d) + (IF (n % d) >= (d + 99) \div 100 THEN 1 ELSE 0)

(* ------------------------------------------------------------------ *)
(* Inputs                                                              *)
(* ------------------------------------------------------------------ *)

\* Principals, in millionths: 100.00 and 600.00.
Principais == {100000000, 600000000}

\* Annual rates, in hundredths: 0 and 12.00 (a monthly rate of 1.00).  With
\* 1 + taxa_mensal = 2 the powers (1 + taxa_mensal) ** n are exact here as
\* they are in doubles, so npf.pmt rounds once, in its last division.
TaxasAnuais == {0, MESES_ANO * UM}

\* Fixed monthly fee: 0 and 25.00.
TaxasAdm == {0, 25000000}

\* Annual insurance rates, in hundredths: 0 and 0.12 (0.01 a month).
Seguros == {0, MESES_ANO}

Sistemas == {"Price", "SAC"}

Estrategias == {"parcela", "prazo"}

TiposExtra == {"unico", "anual"}

\* Prepayments: none, the smallest positive amount, 15.00 (less than half a
\* SAC instalment of the longest loan of 600.00), 299.00 (almost half of
\* 600.00), 700.00 (more than any principal).
ValoresExtra == {0, 1, 15000000, 299000000, 700000000}

Emprestimo(s, p, t, n, a, g) ==
    [tipo_sistema |-> s, principal |-> p, taxa_anual |-> t, prazo_meses |-> n,
     taxa_adm_fixa |-> a, seguro_perc_anual |-> g]

\* principal > 0, rate >= 0, term >= 1, fee >= 0, insurance >= 0.
Validos ==
    {Emprestimo(s, p, t, n, a, g) :
        s \in Sistemas, p \in Principais, t \in TaxasAnuais,
        n \in 1..MaxPrazo, a \in TaxasAdm, g \in Seguros}

\* A term of 0 or -1, a negative rate, a negative principal.
Invalidos ==
    {Emprestimo(s, p, t, n, 0, 0) :
        s \in Sistemas, p \in Principais, t \in TaxasAnuais, n \in {0, -1}}
    \cup {Emprestimo(s, p, -(MESES_ANO * UM), 2, 0, 0) :
        s \in Sistemas, p \in Principais}
    \cup {Emprestimo(s, -p, t, 2, 0, 0) :
        s \in Sistemas, p \in Principais, t \in TaxasAnuais}

SemExtra ==
    [estrategia |-> "parcela", tipo_amort_extra |-> "unico", valor_extra |-> 0,
     mes_inicio_extra |-> 1]

(* ------------------------------------------------------------------ *)
(* State                                                               *)
(* ------------------------------------------------------------------ *)

VARIABLES
    emp,                      \* the loan parameters of the calls
    ext,                      \* the prepayment parameters of the simulator call
    pc,                       \* inicio, price, sac, pronto, sim, fim
    mes,                      \* mes / mes_atual of the running loop
    saldo_devedor,
    pmt_base,                 \* calcular_cronograma_price
    amortizacao_fixa,         \* calcular_cronograma_sac
    parcela_base_juros_amort, \* calcular_simulacao_extra, Price
    amortizacao_base,         \* calcular_simulacao_extra, SAC
    prazo_total_simulado,
    cronograma,               \* the rows of the running call
    df_original,              \* what the generator returned
    df_simulado,              \* what the simulator returned
    gerador,                  \* outcome of the generator call
    simulador,                \* outcome of the simulator call
    meta                      \* outcome of encontrar_pagamento_meta

vars ==
    <<emp, ext, pc, mes, saldo_devedor, pmt_base, amortizacao_fixa,
      parcela_base_juros_amort, amortizacao_base, prazo_total_simulado,
      cronograma, df_original, df_simulado, gerador, simulador, meta>>

taxa_mensal == TaxaMensal(emp.taxa_anual)

seguro_perc_mensal == TaxaMensal(emp.seguro_perc_anual)

\* One row of a schedule.  inflacao_anual keeps its default 0.0, so the
\* discount factor is 1 and VP Parcela is the payment.
Linha(m, parcela, juros, amortizacao, seguro, saldo) ==
    [Mes |-> m, Parcela |-> parcela, Juros |-> juros,
     Amortizacao |-> amortizacao, Seguro |-> seguro,
     TaxaAdm |-> emp.taxa_adm_fixa, SaldoDevedor |-> saldo,
     VPParcela |-> parcela]

Init ==
    /\ emp \in Validos \cup Invalidos
    /\ ext = SemExtra
    /\ pc = "inicio"
    /\ mes = 0
    /\ saldo_devedor = 0
    /\ pmt_base = 0
    /\ amortizacao_fixa = 0
    /\ parcela_base_juros_amort = 0
    /\ amortizacao_base = 0
    /\ prazo_total_simulado = 0
    /\ cronograma = <<>>
    /\ df_original = <<>>
    /\ df_simulado = <<>>
    /\ gerador = "nao_chamado"
    /\ simulador = "nao_chamado"
    /\ meta = [estado |-> "nao_chamado", prazo_desejado |-> 0, valor |-> 0]

(* ------------------------------------------------------------------ *)
(* calcular_cronograma_price                                           *)
(* ------------------------------------------------------------------ *)

\* Lines 24-40: the monthly rates and the base payment.  principal /
\* prazo_meses raises ZeroDivisionError for a term of 0 at rate 0.
PriceInicia ==
    /\ pc = "inicio"
    /\ emp.tipo_sistema = "Price"
    /\ IF taxa_mensal <= 0 /\ emp.prazo_meses = 0
       THEN /\ pc' = "pronto"
            /\ gerador' = "excecao"
            /\ UNCHANGED <<pmt_base, saldo_devedor, mes>>
       ELSE /\ pc' = "price"
            /\ pmt_base' = IF taxa_mensal > 0
                           THEN PMT(taxa_mensal, emp.prazo_meses, -emp.principal)
                           ELSE Quociente(emp.principal, emp.prazo_meses)
            /\ saldo_devedor' = emp.principal
            /\ mes' = 1
            /\ gerador' = "executando"
    /\ cronograma' = <<>>
    /\ UNCHANGED <<emp, ext, amortizacao_fixa, parcela_base_juros_amort,
                   amortizacao_base, prazo_total_simulado, df_original,
                   df_simulado, simulador, meta>>

\* A mutant of PriceLinha: the residual correction is not limited to the
\* last month.
PriceLinhaSemUltimo ==
    LET juros == Produto(saldo_devedor, taxa_mensal)
        amortizacao == IF taxa_mensal > 0 THEN pmt_base - juros ELSE pmt_base
        seguro_valor == Produto(saldo_devedor, seguro_perc_mensal)
        parcela_total == pmt_base + emp.taxa_adm_fixa + seguro_valor
        saldo == saldo_devedor - amortizacao
        residuo == saldo > EPS
    IN  Linha(mes,
              IF residuo THEN parcela_total + saldo ELSE parcela_total,
              juros,
              IF residuo THEN amortizacao + saldo ELSE amortizacao,
              seguro_valor,
              IF residuo THEN 0 ELSE saldo)

\* Lines 43-80: one iteration of the loop.
PriceLinha ==
    LET juros == Produto(saldo_devedor, taxa_mensal)
        amortizacao == IF taxa_mensal > 0 THEN pmt_base - juros ELSE pmt_base
        seguro_valor == Produto(saldo_devedor, seguro_perc_mensal)
        parcela_total == pmt_base + emp.taxa_adm_fixa + seguro_valor
        saldo == saldo_devedor - amortizacao
        residuo == mes = emp.prazo_meses /\ saldo > EPS
    IN  Linha(mes,
              IF residuo THEN parcela_total + saldo ELSE parcela_total,
              juros,
              IF residuo THEN amortizacao + saldo ELSE amortizacao,
              seguro_valor,
              IF residuo THEN 0 ELSE saldo)

PricePasso ==
    /\ pc = "price"
    /\ mes <= emp.prazo_meses
    /\ cronograma' = Append(cronograma, PriceLinha)
    /\ saldo_devedor' = PriceLinha.SaldoDevedor
    /\ mes' = mes + 1
    /\ UNCHANGED <<emp, ext, pc, pmt_base, amortizacao_fixa,
                   parcela_base_juros_amort, amortizacao_base,
                   prazo_total_simulado, df_original, df_simulado, gerador,
                   simulador, meta>>

\* Line 82.
PriceRetorna ==
    /\ pc = "price"
    /\ mes > emp.prazo_meses
    /\ pc' = "pronto"
    /\ df_original' = cronograma
    /\ gerador' = "retornou"
    /\ UNCHANGED <<emp, ext, mes, saldo_devedor, pmt_base, amortizacao_fixa,
                   parcela_base_juros_amort, amortizacao_base,
                   prazo_total_simulado, cronograma, df_simulado, simulador,
                   meta>>

(* ------------------------------------------------------------------ *)
(* calcular_cronograma_sac                                             *)
(* ------------------------------------------------------------------ *)

\* Lines 100-106.  principal / prazo_meses raises for a term of 0.
SacInicia ==
    /\ pc = "inicio"
    /\ emp.tipo_sistema = "SAC"
    /\ IF emp.prazo_meses = 0
       THEN /\ pc' = "pronto"
            /\ gerador' = "excecao"
            /\ UNCHANGED <<amortizacao_fixa, saldo_devedor, mes>>
       ELSE /\ pc' = "sac"
            /\ amortizacao_fixa' = Quociente(emp.principal, emp.prazo_meses)
            /\ saldo_devedor' = emp.principal
            /\ mes' = 1
            /\ gerador' = "executando"
    /\ cronograma' = <<>>
    /\ UNCHANGED <<emp, ext, pmt_base, parcela_base_juros_amort,
                   amortizacao_base, prazo_total_simulado, df_original,
                   df_simulado, simulador, meta>>

\* Lines 108-133: one iteration of the loop.
SacLinha ==
    LET juros == Produto(saldo_devedor, taxa_mensal)
        seguro_valor == Produto(saldo_devedor, seguro_perc_mensal)
        parcela_total ==
            amortizacao_fixa + juros + emp.taxa_adm_fixa + seguro_valor
        saldo == saldo_devedor - amortizacao_fixa
    IN  Linha(mes, parcela_total, juros, amortizacao_fixa, seguro_valor,
              IF mes = emp.prazo_meses THEN 0 ELSE saldo)

SacPasso ==
    /\ pc = "sac"
    /\ mes <= emp.prazo_meses
    /\ cronograma' = Append(cronograma, SacLinha)
    /\ saldo_devedor' = SacLinha.SaldoDevedor
    /\ mes' = mes + 1
    /\ UNCHANGED <<emp, ext, pc, pmt_base, amortizacao_fixa,
                   parcela_base_juros_amort, amortizacao_base,
                   prazo_total_simulado, df_original, df_simulado, gerador,
                   simulador, meta>>

\* Line 135.
SacRetorna ==
    /\ pc = "sac"
    /\ mes > emp.prazo_meses
    /\ pc' = "pronto"
    /\ df_original' = cronograma
    /\ gerador' = "retornou"
    /\ UNCHANGED <<emp, ext, mes, saldo_devedor, pmt_base, amortizacao_fixa,
                   parcela_base_juros_amort, amortizacao_base,
                   prazo_total_simulado, cronograma, df_simulado, simulador,
                   meta>>

(* ------------------------------------------------------------------ *)
(* calcular_simulacao_extra                                            *)
(* ------------------------------------------------------------------ *)

\* Lines 160-172.  principal / prazo_meses raises for a term of 0 (SAC, and
\* Price at rate 0).
SimInicia ==
    /\ pc = "pronto"
    /\ \E e \in Estrategias, t \in TiposExtra, v \in ValoresExtra,
          i \in 1..MaxInicio :
          ext' = [estrategia |-> e, tipo_amort_extra |-> t, valor_extra |-> v,
                  mes_inicio_extra |-> i]
    /\ IF emp.prazo_meses = 0 /\ (emp.tipo_sistema = "SAC" \/ taxa_mensal <= 0)
       THEN /\ pc' = "fim"
            /\ simulador' = "excecao"
            /\ UNCHANGED <<parcela_base_juros_amort, amortizacao_base>>
       ELSE /\ pc' = "sim"
            /\ simulador' = "executando"
            /\ IF emp.tipo_sistema = "Price"
               THEN /\ parcela_base_juros_amort' =
                         IF taxa_mensal > 0
                         THEN PMT(taxa_mensal, emp.prazo_meses, -emp.principal)
                         ELSE Quociente(emp.principal, emp.prazo_meses)
                    /\ UNCHANGED amortizacao_base
               ELSE /\ amortizacao_base' =
                         Quociente(emp.principal, emp.prazo_meses)
                    /\ UNCHANGED parcela_base_juros_amort
    /\ cronograma' = <<>>
    /\ saldo_devedor' = emp.principal
    /\ mes' = 1
    /\ prazo_total_simulado' = emp.prazo_meses
    /\ UNCHANGED <<emp, pmt_base, amortizacao_fixa, df_original, df_simulado,
                   gerador, meta>>

\* A mutant of ExtraDoMes: the recurring prepayment is made every month
\* from the start period on.
ExtraDoMesTodoMes(m) ==
    IF /\ ext.valor_extra > 0
       /\ \/ ext.tipo_amort_extra = "unico" /\ m = ext.mes_inicio_extra
          \/ ext.tipo_amort_extra = "anual" /\ m >= ext.mes_inicio_extra
    THEN ext.valor_extra
    ELSE 0

\* Lines 177-182: the prepayment of month m, before the cap.
ExtraDoMes(m) ==
    IF /\ ext.valor_extra > 0
       /\ \/ ext.tipo_amort_extra = "unico" /\ m = ext.mes_inicio_extra
          \/ /\ ext.tipo_amort_extra = "anual"
             /\ m >= ext.mes_inicio_extra
             /\ (m - ext.mes_inicio_extra) % MESES_ANO = 0
    THEN ext.valor_extra
    ELSE 0

\* Lines 187-190.
AmortizacaoNormal ==
    IF emp.tipo_sistema = "Price"
    THEN parcela_base_juros_amort - Produto(saldo_devedor, taxa_mensal)
    ELSE amortizacao_base

\* Line 192: normal + extra would overpay the balance.
Excede == AmortizacaoNormal + ExtraDoMes(mes) > saldo_devedor

\* Lines 192-196: the principal portion recorded for the month.
AmortizacaoTotalMes ==
    IF Excede
    THEN saldo_devedor + Produto(saldo_devedor, taxa_mensal)
    ELSE AmortizacaoNormal + ExtraDoMes(mes)

\* Line 194: the prepayment of the month, after the cap.
AmortizacaoExtraMes ==
    IF Excede THEN saldo_devedor - AmortizacaoNormal ELSE ExtraDoMes(mes)

\* Line 201: the balance before the residual correction.
SaldoAposPagamento ==
    saldo_devedor - (AmortizacaoNormal + AmortizacaoExtraMes)

\* Line 203: the last month of the effective term leaves a residue.
Residuo == mes = prazo_total_simulado /\ SaldoAposPagamento > EPS

\* Lines 203-206.
SaldoFinalMes == IF Residuo THEN 0 ELSE SaldoAposPagamento

\* A mutant of SimLinha: the payment is built from the principal that leaves
\* the balance (normal + extra) instead of the recorded principal portion.
SimLinhaPago ==
    LET juros == Produto(saldo_devedor, taxa_mensal)
        seguro_valor == Produto(saldo_devedor, seguro_perc_mensal)
        parcela_total ==
            AmortizacaoNormal + AmortizacaoExtraMes + juros
              + emp.taxa_adm_fixa + seguro_valor
    IN  Linha(mes,
              IF Residuo THEN parcela_total + SaldoAposPagamento
              ELSE parcela_total,
              juros,
              IF Residuo THEN AmortizacaoTotalMes + SaldoAposPagamento
              ELSE AmortizacaoTotalMes,
              seguro_valor,
              SaldoFinalMes)

\* Lines 184-219: the row of the month.
SimLinha ==
    LET juros == Produto(saldo_devedor, taxa_mensal)
        seguro_valor == Produto(saldo_devedor, seguro_perc_mensal)
        parcela_total ==
            AmortizacaoTotalMes + juros + emp.taxa_adm_fixa + seguro_valor
    IN  Linha(mes,
              IF Residuo THEN parcela_total + SaldoAposPagamento
              ELSE parcela_total,
              juros,
              IF Residuo THEN AmortizacaoTotalMes + SaldoAposPagamento
              ELSE AmortizacaoTotalMes,
              seguro_valor,
              SaldoFinalMes)

\* Line 223: the schedule is re-amortized after the row.
Recalcula == AmortizacaoExtraMes > 0 /\ SaldoFinalMes > EPS

\* A mutant of PrazoRestante: the current month is counted as not yet paid.
PrazoRestanteMenosUm == prazo_total_simulado - mes - 1

\* Line 224.
PrazoRestante == prazo_total_simulado - mes

\* A mutant of MantemPrazo: the strategy is compared with a misspelt name.
MantemPrazoTrocado == ext.estrategia = "Parcela"

\* Line 226: the strategy keeps the term and re-derives the base payment.
MantemPrazo == ext.estrategia = "parcela"

\* Lines 226-236 raise: a division by a remaining term of 0 (reduce-payment,
\* SAC or rate 0), by a base payment of 0, or int() of a nan or inf.
RecalculoFalha ==
    IF MantemPrazo
    THEN PrazoRestante = 0 /\ (emp.tipo_sistema = "SAC" \/ taxa_mensal <= 0)
    ELSE IF emp.tipo_sistema = "Price"
         THEN IF taxa_mensal > 0
              THEN NperIndefinido(taxa_mensal, parcela_base_juros_amort,
                                  SaldoFinalMes)
              ELSE parcela_base_juros_amort = 0
         ELSE amortizacao_base = 0

\* Line 228: reduce-payment, Price.
NovaParcelaBase ==
    IF taxa_mensal > 0
    THEN PMT(taxa_mensal, PrazoRestante, -SaldoFinalMes)
    ELSE Quociente(SaldoFinalMes, PrazoRestante)

\* Line 230: reduce-payment, SAC.
NovaAmortizacaoBase == Quociente(SaldoFinalMes, PrazoRestante)

\* A mutant of NovoPrazoTotal: the rounded remainder is added to the
\* effective term instead of the current month.
NovoPrazoTotalSomado ==
    prazo_total_simulado
      + (IF emp.tipo_sistema = "Price"
         THEN IF taxa_mensal > 0
              THEN IntNperMais99(taxa_mensal, parcela_base_juros_amort,
                                 SaldoFinalMes)
              ELSE IntRazaoMais99(SaldoFinalMes, parcela_base_juros_amort)
         ELSE IntRazaoMais99(SaldoFinalMes, amortizacao_base))

\* Lines 232-236: shorten-term.
NovoPrazoTotal ==
    mes + (IF emp.tipo_sistema = "Price"
           THEN IF taxa_mensal > 0
                THEN IntNperMais99(taxa_mensal, parcela_base_juros_amort,
                                   SaldoFinalMes)
                ELSE IntRazaoMais99(SaldoFinalMes, parcela_base_juros_amort)
           ELSE IntRazaoMais99(SaldoFinalMes, amortizacao_base))

\* Line 174 and lines 176-238: one iteration of the loop.
SimPasso ==
    /\ pc = "sim"
    /\ saldo_devedor > EPS
    /\ mes <= prazo_total_simulado
    /\ cronograma' = Append(cronograma, SimLinha)
    /\ saldo_devedor' = SaldoFinalMes
    /\ IF Recalcula /\ RecalculoFalha
       THEN /\ pc' = "fim"
            /\ simulador' = "excecao"
            /\ UNCHANGED <<mes, parcela_base_juros_amort, amortizacao_base,
                           prazo_total_simulado>>
       ELSE /\ mes' = mes + 1
            /\ parcela_base_juros_amort' =
                 IF Recalcula /\ MantemPrazo /\ emp.tipo_sistema = "Price"
                 THEN NovaParcelaBase ELSE parcela_base_juros_amort
            /\ amortizacao_base' =
                 IF Recalcula /\ MantemPrazo /\ emp.tipo_sistema = "SAC"
                 THEN NovaAmortizacaoBase ELSE amortizacao_base
            /\ prazo_total_simulado' =
                 IF Recalcula /\ ~MantemPrazo
                 THEN NovoPrazoTotal ELSE prazo_total_simulado
            /\ UNCHANGED <<pc, simulador>>
    /\ UNCHANGED <<emp, ext, pmt_base, amortizacao_fixa, df_original,
                   df_simulado, gerador, meta>>

\* Line 174 (the loop ends) and line 240.
SimRetorna ==
    /\ pc = "sim"
    /\ ~(saldo_devedor > EPS /\ mes <= prazo_total_simulado)
    /\ pc' = "fim"
    /\ df_simulado' = cronograma
    /\ simulador' = "retornou"
    /\ UNCHANGED <<emp, ext, mes, saldo_devedor, pmt_base, amortizacao_fixa,
                   parcela_base_juros_amort, amortizacao_base,
                   prazo_total_simulado, cronograma, df_original, gerador,
                   meta>>

(* ------------------------------------------------------------------ *)
(* encontrar_pagamento_meta                                            *)
(* ------------------------------------------------------------------ *)

\* Lines 297, 300, 307 and 310 raise ZeroDivisionError: principal / n with
\* n = 0, which npf.pmt (Price at a positive rate) does not do.
MetaFalha(n) == n = 0 /\ (emp.tipo_sistema = "SAC" \/ taxa_mensal <= 0)

\* The base payment of lines 297 and 300.
PmtMeta(n) ==
    IF taxa_mensal > 0 THEN PMT(taxa_mensal, n, -emp.principal)
    ELSE Quociente(emp.principal, n)

\* The base principal portion of lines 307 and 310.
AmortMeta(n) == Quociente(emp.principal, n)

\* Lines 303 and 313: inf - x is inf and x - inf is -inf (the two terms
\* differ, so at most one of the two is infinite).
Diferenca(desejado, original) ==
    IF Abs(desejado) = Infinito THEN desejado
    ELSE IF Abs(original) = Infinito THEN -original
    ELSE desejado - original

\* Lines 288-320: what the call returns; the except clause returns 0.0.
PagamentoMeta(prazo_original_meses, prazo_desejado_meses) ==
    IF prazo_desejado_meses >= prazo_original_meses THEN 0
    ELSE IF MetaFalha(prazo_original_meses) \/ MetaFalha(prazo_desejado_meses)
    THEN 0
    ELSE IF emp.tipo_sistema = "Price"
    THEN Diferenca(PmtMeta(prazo_desejado_meses),
                   PmtMeta(prazo_original_meses))
    ELSE Diferenca(AmortMeta(prazo_desejado_meses),
                   AmortMeta(prazo_original_meses))

MetaChama ==
    /\ pc = "pronto"
    /\ \E d \in -1..MaxPrazo :
          meta' = [estado |-> "retornou", prazo_desejado |-> d,
                   valor |-> PagamentoMeta(emp.prazo_meses, d)]
    /\ pc' = "fim"
    /\ UNCHANGED <<emp, ext, mes, saldo_devedor, pmt_base, amortizacao_fixa,
                   parcela_base_juros_amort, amortizacao_base,
                   prazo_total_simulado, cronograma, df_original, df_simulado,
                   gerador, simulador>>

Next ==
    \/ PriceInicia
    \/ PricePasso
    \/ PriceRetorna
    \/ SacInicia
    \/ SacPasso
    \/ SacRetorna
    \/ SimInicia
    \/ SimPasso
    \/ SimRetorna
    \/ MetaChama

Spec == Init /\ [][Next]_vars

(* ------------------------------------------------------------------ *)
(* calcular_cronograma_sac on loans of ordinary size                   *)
(* ------------------------------------------------------------------ *)

(* An ordinary rate such as 0.10 / 12 is not a whole number of hundredths,  *)
(* and a principal of 100000 does not fit in millionths.  SpecCenario runs  *)
(* the SAC generator with amounts in ten-thousandths of a currency unit and *)
(* with the monthly rate kept as the fraction taxa_anual / 12; the          *)
(* generator has no epsilon, so its code does not depend on the unit.       *)

\* saldo_devedor * taxa_mensal with taxa_mensal = taxa_anual / 12 unrounded.
ProdutoMensal(valor, taxa_anual) == MulDiv(valor, taxa_anual, MESES_ANO * UM)

\* An amount in ten-thousandths, rounded to the nearest cent.
Centavos(valor) == MulDiv(valor, 1, 100)

\* principal = 100000, taxa_anual = 0.10, prazo_meses = 120, no fee and no
\* insurance.
EmprestimoCenario == Emprestimo("SAC", 1000000000, 10, 120, 0, 0)

\* Principals 100000 and 60000, rates 0.10 and 0, terms 120 and 12.
EmprestimosCenario ==
    {Emprestimo("SAC", p, t, n, 0, 0) :
        p \in {1000000000, 600000000}, t \in {0, 10}, n \in {12, 120}}

InitCenario ==
    /\ emp \in EmprestimosCenario
    /\ ext = SemExtra
    /\ pc = "inicio"
    /\ mes = 0
    /\ saldo_devedor = 0
    /\ pmt_base = 0
    /\ amortizacao_fixa = 0
    /\ parcela_base_juros_amort = 0
    /\ amortizacao_base = 0
    /\ prazo_total_simulado = 0
    /\ cronograma = <<>>
    /\ df_original = <<>>
    /\ df_simulado = <<>>
    /\ gerador = "nao_chamado"
    /\ simulador = "nao_chamado"
    /\ meta = [estado |-> "nao_chamado", prazo_desejado |-> 0, valor |-> 0]

\* A mutant of SacLinhaCenario: the interest is charged on the closing
\* balance of the period instead of its opening balance.
SacLinhaCenarioFechamento ==
    LET saldo == saldo_devedor - amortizacao_fixa
        juros == ProdutoMensal(saldo, emp.taxa_anual)
        seguro_valor == ProdutoMensal(saldo, emp.seguro_perc_anual)
        parcela_total ==
            amortizacao_fixa + juros + emp.taxa_adm_fixa + seguro_valor
    IN  Linha(mes, parcela_total, juros, amortizacao_fixa, seguro_valor,
              IF mes = emp.prazo_meses THEN 0 ELSE saldo)

\* Lines 108-133: one iteration of the loop.
SacLinhaCenario ==
    LET juros == ProdutoMensal(saldo_devedor, emp.taxa_anual)
        seguro_valor == ProdutoMensal(saldo_devedor, emp.seguro_perc_anual)
        parcela_total ==
            amortizacao_fixa + juros + emp.taxa_adm_fixa + seguro_valor
        saldo == saldo_devedor - amortizacao_fixa
    IN  Linha(mes, parcela_total, juros, amortizacao_fixa, seguro_valor,
              IF mes = emp.prazo_meses THEN 0 ELSE saldo)

SacPassoCenario ==
    /\ pc = "sac"
    /\ mes <= emp.prazo_meses
    /\ cronograma' = Append(cronograma, SacLinhaCenario)
    /\ saldo_devedor' = SacLinhaCenario.SaldoDevedor
    /\ mes' = mes + 1
    /\ UNCHANGED <<emp, ext, pc, pmt_base, amortizacao_fixa,
                   parcela_base_juros_amort, amortizacao_base,
                   prazo_total_simulado, df_original, df_simulado, gerador,
                   simulador, meta>>

NextCenario ==
    \/ SacInicia
    \/ SacPassoCenario
    \/ SacRetorna

SpecCenario == InitCenario /\ [][NextCenario]_vars

(* ------------------------------------------------------------------ *)
(* Properties                                                          *)
(* ------------------------------------------------------------------ *)

RECURSIVE SomaAmortizacao(_)
SomaAmortizacao(df) ==
    IF df = <<>> THEN 0
    ELSE df[Len(df)].Amortizacao + SomaAmortizacao(SubSeq(df, 1, Len(df) - 1))

\* The opening balance of row i of a schedule.
SaldoInicial(df, i) == IF i = 1 THEN emp.principal ELSE df[i - 1].SaldoDevedor

GeradorRetornou == gerador = "retornou" /\ emp \in Validos

SimuladorRetornou == simulador = "retornou" /\ emp \in Validos

\* Row i of the simulated schedule was capped at the balance (line 192).
LinhaLimitada(df, i) ==
    /\ df[i].SaldoDevedor = 0
    /\ df[i].Amortizacao = SaldoInicial(df, i) + df[i].Juros

\* The row identity of the Period Record.
LinhaFecha(l) == l.Parcela = l.Amortizacao + l.Juros + l.TaxaAdm + l.Seguro

(* C1: for valid parameters, every row the prepayment simulator emits has a
   closing balance >= 0 and its last row has a closing balance of exactly 0. *)
C1_SaldoSimulado ==
    SimuladorRetornou /\ df_simulado # <<>> =>
        /\ \A i \in 1..Len(df_simulado) : df_simulado[i].SaldoDevedor >= 0
        /\ df_simulado[Len(df_simulado)].SaldoDevedor = 0

(* C2: for valid parameters, no row of a schedule of calcular_cronograma_price
   or calcular_cronograma_sac has a negative closing balance, and the row of
   the last period has a closing balance of exactly 0. *)
C2_SaldoCronograma ==
    GeradorRetornou =>
        /\ Len(df_original) = emp.prazo_meses
        /\ \A i \in 1..Len(df_original) : df_original[i].SaldoDevedor >= 0
        /\ df_original[Len(df_original)].SaldoDevedor = 0

(* C3: the principal portions (Amortizacao) of a schedule add up to the
   original principal within 1 cent, for both generators and for the
   simulator, capped prepayments included. *)
C3_SomaAmortizacao ==
    /\ GeradorRetornou =>
          Abs(SomaAmortizacao(df_original) - emp.principal) <= EPS
    /\ SimuladorRetornou =>
          Abs(SomaAmortizacao(df_simulado) - emp.principal) <= EPS

C5_PrazoNaoCresce ==
    /\ simulador \in {"executando", "retornou"}
    /\ emp \in Validos
    /\ ext.estrategia = "prazo"
    => /\ prazo_total_simulado <= emp.prazo_meses
       /\ Len(cronograma) <= emp.prazo_meses

\* C5: a shorten-term run with two recurring prepayments (months 1 and 13),
\* each followed by a re-amortization.
C5_Testemunha ==
    /\ SimuladorRetornou
    /\ ext.estrategia = "prazo"
    /\ ext.tipo_amort_extra = "anual"
    /\ ext.valor_extra > 0
    /\ ext.mes_inicio_extra = 1
    /\ Len(df_simulado) > MESES_ANO + 1
    /\ df_simulado[1].SaldoDevedor > EPS
    /\ df_simulado[MESES_ANO + 1].SaldoDevedor > EPS

(* C6: for valid parameters and valor_extra = 0 the simulator returns
   exactly the schedule of the plain generator of the same system. *)
C6_SemExtraIgualAoCronograma ==
    /\ SimuladorRetornou
    /\ gerador = "retornou"
    /\ ext.valor_extra = 0
    => df_simulado = df_original

(* C7: in every row of every schedule built from valid parameters,
   Parcela = Amortizacao + Juros + Taxa Adm + Seguro. *)
C7_ParcelaFecha ==
    emp \in Validos =>
        /\ \A i \in 1..Len(cronograma) : LinhaFecha(cronograma[i])
        /\ \A i \in 1..Len(df_original) : LinhaFecha(df_original[i])
        /\ \A i \in 1..Len(df_simulado) : LinhaFecha(df_simulado[i])

\* C7: a simulated schedule with fee, insurance and interest whose last row
\* was capped at the balance.
C7_Testemunha ==
    /\ SimuladorRetornou
    /\ emp.taxa_adm_fixa > 0
    /\ emp.seguro_perc_anual > 0
    /\ emp.taxa_anual > 0
    /\ ext.valor_extra > 0
    /\ Len(df_simulado) >= 2
    /\ LinhaLimitada(df_simulado, Len(df_simulado))

(* C8, as stated: in a schedule of calcular_cronograma_price the payment
   (Parcela) is the same in every period 1..term-1. *)
C8_ParcelaConstante ==
    GeradorRetornou /\ emp.tipo_sistema = "Price" =>
        \A i, j \in 1..(Len(df_original) - 1) :
            df_original[i].Parcela = df_original[j].Parcela

(* C8, amended: in a schedule of calcular_cronograma_price the payment net
   of the insurance portion is pmt_base + taxa_adm_fixa in every period
   1..term-1, so the payment is the same in those periods when the
   insurance rate is 0 and falls with the balance otherwise. *)
C8_ParcelaSemSeguroConstante ==
    GeradorRetornou /\ emp.tipo_sistema = "Price" =>
        /\ \A i \in 1..(Len(df_original) - 1) :
              df_original[i].Parcela - df_original[i].Seguro
                = pmt_base + emp.taxa_adm_fixa
        /\ emp.seguro_perc_anual = 0 =>
              \A i, j \in 1..(Len(df_original) - 1) :
                  df_original[i].Parcela = df_original[j].Parcela

\* C8: a Price schedule with fee and insurance whose first two payments
\* differ.
C8_Testemunha ==
    /\ GeradorRetornou
    /\ emp.tipo_sistema = "Price"
    /\ emp.taxa_adm_fixa > 0
    /\ emp.seguro_perc_anual > 0
    /\ Len(df_original) >= 3
    /\ df_original[1].Parcela # df_original[2].Parcela

(* C9: encontrar_pagamento_meta called with a desired term of 0 or less and
   an original term >= 1 returns 0. *)
C9_MetaPrazoNaoPositivo ==
    /\ meta.estado = "retornou"
    /\ emp \in Validos
    /\ meta.prazo_desejado <= 0
    => meta.valor = 0

(* C10: invalid loan parameters are rejected before the period loop: the
   generator and the simulator end in an error and return no schedule. *)
C10_InvalidosRejeitados ==
    emp \in Invalidos =>
        /\ gerador \in {"nao_chamado", "excecao"}
        /\ simulador \in {"nao_chamado", "excecao"}

(* C11, as stated: for principal 100000, annual rate 10 %, term 120, no fee
   and no insurance, the SAC schedule has a first payment of 1680.56 and a
   last payment of 840.28, to the nearest cent. *)
C11_CenarioSac ==
    gerador = "retornou" /\ emp = EmprestimoCenario =>
        /\ Centavos(df_original[1].Parcela) = 168056
        /\ Centavos(df_original[Len(df_original)].Parcela) = 84028

(* C11, amended: for that loan the SAC schedule has 120 rows, a first
   payment of 1666.67 and a last payment of 840.28, to the nearest cent; the
   payment of each period is principal / 120 plus that period's interest on
   the opening balance at rate 10 % / 12. *)
C11_CenarioSacCorrigido ==
    gerador = "retornou" /\ emp = EmprestimoCenario =>
        /\ Len(df_original) = 120
        /\ Centavos(df_original[1].Parcela) = 166667
        /\ Centavos(df_original[Len(df_original)].Parcela) = 84028
        /\ \A i \in 1..Len(df_original) :
              df_original[i].Parcela
                = Quociente(emp.principal, 120)
                    + ProdutoMensal(SaldoInicial(df_original, i), 10)

\* C11: the SAC generator returned the 120 rows of that loan.
C11_Testemunha ==
    /\ gerador = "retornou"
    /\ emp = EmprestimoCenario
    /\ Len(df_original) = 120
    /\ df_original[1].Juros > 0

(* C12: for valid parameters, a period of the simulator in which the normal
   principal portion plus the prepayment exceeds the opening balance emits a
   row whose closing balance is 0 and whose principal portion (Amortizacao)
   is the opening balance of the period. *)
C12_LimiteRegistraSaldo ==
    [][(/\ pc = "sim"
        /\ cronograma' # cronograma
        /\ emp \in Validos
        /\ Excede)
       => /\ cronograma'[Len(cronograma')].SaldoDevedor = 0
          /\ cronograma'[Len(cronograma')].Amortizacao = saldo_devedor]_vars

\* ceil(n / d) for n >= 0 and d > 0.
Teto(n, d) == (n + d - 1) \div d

\* ceil(log(parcela / den) / log(1 + rate)), den as in NperDen.
TetoNper(rate, parcela, saldo) ==
    LET f == Fator(rate)
        d == NperDen(rate, parcela, saldo)
        k == PisoLog(parcela, d, f[1], f[2])
    IN  IF parcela * Pot(f[2], k) = d * Pot(f[1], k) THEN k ELSE k + 1

\* ceil(x) for the number of periods x of a shorten-term re-amortization.
TetoPrazoRestante ==
    IF emp.tipo_sistema = "Price"
    THEN IF taxa_mensal > 0
         THEN TetoNper(taxa_mensal, parcela_base_juros_amort, SaldoFinalMes)
         ELSE Teto(SaldoFinalMes, parcela_base_juros_amort)
    ELSE Teto(SaldoFinalMes, amortizacao_base)

(* C13: for valid parameters and strategy 'prazo', each re-amortization of
   the simulator sets the effective term to the current period + ceil(x),
   x being the number of periods that retires the remaining balance at the
   unchanged base: every fractional x is rounded up. *)
C13_PrazoArredondadoParaCima ==
    [][(/\ pc = "sim"
        /\ cronograma' # cronograma
        /\ emp \in Validos
        /\ Recalcula
        /\ ~MantemPrazo
        /\ ~RecalculoFalha)
       => prazo_total_simulado' = mes + TetoPrazoRestante]_vars

(* C14: for valid parameters, whenever the reduce-payment re-amortization
   runs (a positive prepayment was applied in the period and the balance
   stays above 1 cent), the remaining term prazo_total_simulado - mes_atual
   it divides by is at least 1, and the call goes on without an error. *)
C14_PrazoRestantePositivo ==
    [][(/\ pc = "sim"
        /\ cronograma' # cronograma
        /\ emp \in Validos
        /\ Recalcula
        /\ MantemPrazo)
       => /\ PrazoRestante >= 1
          /\ simulador' = "executando"
          /\ pc' = "sim"]_vars

\* C14: a reduce-payment run just after a prepayment in the last period but
\* one: the SAC base was re-derived by a division by a remaining term of 1.
C14_Testemunha ==
    /\ simulador = "executando"
    /\ emp \in Validos
    /\ emp.tipo_sistema = "SAC"
    /\ ext.estrategia = "parcela"
    /\ ext.tipo_amort_extra = "unico"
    /\ ext.valor_extra > 0
    /\ mes = ext.mes_inicio_extra + 1
    /\ mes = prazo_total_simulado
    /\ saldo_devedor > EPS
    /\ amortizacao_base = saldo_devedor
    /\ amortizacao_base # Quociente(emp.principal, emp.prazo_meses)

\* Period m is one of the periods of the prepayment pattern.
Agendado(m) ==
    \/ ext.tipo_amort_extra = "unico" /\ m = ext.mes_inicio_extra
    \/ /\ ext.tipo_amort_extra = "anual"
       /\ m >= ext.mes_inicio_extra
       /\ (m - ext.mes_inicio_extra) % 12 = 0

(* C15, as stated: with valor_extra > 0, a positive extra principal payment
   is applied in an emitted period m exactly when m is a period of the
   pattern, and in every other emitted period the balance falls by the
   normal principal portion only. *)
C15_ExtraSoNosMesesAgendados ==
    [][(/\ pc = "sim"
        /\ cronograma' # cronograma
        /\ emp \in Validos
        /\ ext.valor_extra > 0)
       => /\ AmortizacaoExtraMes > 0 <=> Agendado(mes)
          /\ ~Agendado(mes) =>
                saldo_devedor - saldo_devedor' = AmortizacaoNormal]_vars

(* C15, amended: with valor_extra > 0, the prepayment requested in an
   emitted period m is valor_extra when m is a period of the pattern and 0
   otherwise; a positive extra payment and a re-amortization happen only in
   periods of the pattern.  The balance falls by the normal portion plus the
   requested prepayment, except that a period that would overpay the balance
   and the last period of the effective term with more than 1 cent left
   close at 0. *)
C15_ExtraPedidoNosMesesAgendados ==
    [][(/\ pc = "sim"
        /\ cronograma' # cronograma
        /\ emp \in Validos
        /\ ext.valor_extra > 0)
       => /\ ExtraDoMes(mes) = (IF Agendado(mes) THEN ext.valor_extra ELSE 0)
          /\ AmortizacaoExtraMes > 0 => Agendado(mes)
          /\ Recalcula => Agendado(mes)
          /\ IF Excede \/ Residuo
             THEN saldo_devedor' = 0
             ELSE saldo_devedor - saldo_devedor'
                    = AmortizacaoNormal
                        + (IF Agendado(mes) THEN ext.valor_extra ELSE 0)]_vars

\* C15: a run with a recurring prepayment that started in period 2 and
\* reached period 14: the SAC principal portion of period 2 is the one of
\* period 1 plus the prepayment, a re-amortization followed.
C15_Testemunha ==
    /\ SimuladorRetornou
    /\ emp.tipo_sistema = "SAC"
    /\ ext.tipo_amort_extra = "anual"
    /\ ext.valor_extra > 0
    /\ ext.mes_inicio_extra = 2
    /\ Len(df_simulado) = 14
    /\ df_simulado[2].SaldoDevedor > EPS
    /\ df_simulado[2].Amortizacao
         = df_simulado[1].Amortizacao + ext.valor_extra
    /\ df_simulado[3].Amortizacao # df_simulado[1].Amortizacao

====
